---- MODULE Spec2Model ----
(***************************************************************************)
(* A model of the HTTP server of src/src/main.rs and src/src/http.rs:      *)
(* request parsing (Request::from_raw), routing and content negotiation    *)
(* (handle_request), response serialization (Response::to_string) and the  *)
(* thread-per-connection pipeline (main, handle_connection) over a shared  *)
(* file system.                                                            *)
(*                                                                         *)
(* Text and bytes are sequences of one-byte symbols: an ASCII character is *)
(* the one-character string, "xFF" is the byte 0xFF (never valid in        *)
(* UTF-8) and "xEF", "xBF", "xBD" are the three bytes of U+FFFD.           *)
(* An Option<T> is a sequence of length at most one: <<>> is None and      *)
(* <<v>> is Some(v).  A HashMap is a set of <<key, value>> pairs with      *)
(* unique keys.                                                            *)
(***************************************************************************)
EXTENDS Naturals, Sequences, FiniteSets, TLC

VARIABLES rootDir, fs, conn, sent, lastWrite

vars == <<rootDir, fs, conn, sent, lastWrite>>

-----------------------------------------------------------------------------
(* Option and string primitives of the Rust standard library.              *)

None == <<>>

Some(v) == <<v>>

IsSome(o) == o # <<>>

Unwrap(o) == o[1]

CRLF == <<"\r", "\n">>

\* char::is_whitespace, on the modelled alphabet
Whitespace == {" ", "\t", "\r", "\n"}

Drop(s, n) == SubSeq(s, n + 1, Len(s))

Take(s, n) == IF Len(s) <= n THEN s ELSE SubSeq(s, 1, n)

\* str::starts_with
starts_with(s, p) == Len(s) >= Len(p) /\ SubSeq(s, 1, Len(p)) = p

\* str::trim_start_matches: every leading repetition of the pattern is removed
RECURSIVE trim_start_matches(_, _)
trim_start_matches(s, p) ==
    IF p # <<>> /\ starts_with(s, p)
    THEN trim_start_matches(Drop(s, Len(p)), p)
    ELSE s

\* The positions (1-based), from i on, where the pattern occurs
Matches(s, p, i) ==
    {k \in i .. (Len(s) + 1 - Len(p)) : SubSeq(s, k, k + Len(p) - 1) = p}

\* str::find from position i: the first occurrence, 0 when there is none
find(s, p, i) ==
    IF Matches(s, p, i) = {} THEN 0
    ELSE CHOOSE k \in Matches(s, p, i) : \A j \in Matches(s, p, i) : k <= j

\* str::split(pattern): the pieces between the occurrences, at least one piece
RECURSIVE split(_, _)
split(s, p) ==
    LET k == find(s, p, 1)
    IN  IF k = 0 THEN <<s>>
        ELSE <<SubSeq(s, 1, k - 1)>> \o split(Drop(s, k + Len(p) - 1), p)

\* str::split_once(pattern)
split_once(s, p) ==
    LET k == find(s, p, 1)
    IN  IF k = 0 THEN None
        ELSE Some(<<SubSeq(s, 1, k - 1), Drop(s, k + Len(p) - 1)>>)

\* The length of the leading run of characters of s that are in the set
RunLen(s, set) ==
    IF \A i \in 1 .. Len(s) : s[i] \in set THEN Len(s)
    ELSE (CHOOSE i \in 1 .. Len(s) :
            s[i] \notin set /\ \A j \in 1 .. (i - 1) : s[j] \in set) - 1

\* str::trim_start
trim_start(s) == Drop(s, RunLen(s, Whitespace))

\* str::trim_end
trim_end(s) ==
    IF \A i \in 1 .. Len(s) : s[i] \in Whitespace THEN <<>>
    ELSE SubSeq(s, 1, CHOOSE i \in 1 .. Len(s) :
                        s[i] \notin Whitespace
                        /\ \A j \in (i + 1) .. Len(s) : s[j] \in Whitespace)

\* The characters that are not whitespace, within the modelled alphabet
NonWhitespace(s) == {s[i] : i \in 1 .. Len(s)} \ Whitespace

\* str::split_whitespace: the maximal runs of non-whitespace
RECURSIVE split_whitespace(_)
split_whitespace(s) ==
    LET t == trim_start(s)
        n == RunLen(t, NonWhitespace(t))
    IN  IF t = <<>> THEN <<>>
        ELSE <<SubSeq(t, 1, n)>> \o split_whitespace(Drop(t, n))

\* str::trim
trim(s) == trim_end(trim_start(s))

\* [&str]::join(separator)
RECURSIVE join(_, _)
join(pieces, sep) ==
    IF pieces = <<>> THEN <<>>
    ELSE IF Len(pieces) = 1 THEN pieces[1]
    ELSE pieces[1] \o sep \o join(Tail(pieces), sep)

Digits == <<"0", "1", "2", "3", "4", "5", "6", "7", "8", "9">>

\* usize::to_string
RECURSIVE Decimal(_)
Decimal(n) ==
    IF n < 10 THEN <<Digits[n + 1]>>
    ELSE Decimal(n \div 10) \o <<Digits[(n % 10) + 1]>>

REPLACEMENT == <<"xEF", "xBF", "xBD">>

\* Whether the byte at position i belongs to a well-formed character: it is
\* ASCII, or one of the three bytes of an encoded U+FFFD (the only
\* multi-byte character of the modelled alphabet; the requests hold 0xFF as
\* their only byte that is not UTF-8, replaced by one U+FFFD)
ValidAt(b, i) ==
    LET at(k) == IF k \in 1 .. Len(b) THEN b[k] ELSE "none"
    IN  \/ b[i] \notin {"xFF", "xEF", "xBF", "xBD"}
        \/ b[i] = "xEF" /\ at(i + 1) = "xBF" /\ at(i + 2) = "xBD"
        \/ b[i] = "xBF" /\ at(i - 1) = "xEF" /\ at(i + 1) = "xBD"
        \/ b[i] = "xBD" /\ at(i - 2) = "xEF" /\ at(i - 1) = "xBF"

\* The concatenation of pieces[lo .. hi]
RECURSIVE Flatten(_, _, _)
Flatten(pieces, lo, hi) ==
    IF lo > hi THEN <<>>
    ELSE IF lo = hi THEN pieces[lo]
    ELSE Flatten(pieces, lo, (lo + hi) \div 2)
             \o Flatten(pieces, ((lo + hi) \div 2) + 1, hi)

\* String::from_utf8_lossy: an invalid byte becomes U+FFFD (three bytes)
from_utf8_lossy(b) ==
    Flatten([i \in 1 .. Len(b) |-> IF ValidAt(b, i) THEN <<b[i]>> ELSE REPLACEMENT],
            1, Len(b))

\* the UTF-8 validation of fs::read_to_string
is_utf8(b) == \A i \in 1 .. Len(b) : ValidAt(b, i)

\* HashMap::get
Get(map, key) ==
    IF \E p \in map : p[1] = key
    THEN Some((CHOOSE p \in map : p[1] = key)[2])
    ELSE None

\* HashMap::insert: the last insertion of a key wins
Insert(map, key, value) == {p \in map : p[1] # key} \cup {<<key, value>>}

-----------------------------------------------------------------------------
(* src/src/http.rs                                                         *)

\* HttpMethod::from_string: <<>> stands for the panic on an unknown token
HttpMethod_from_string(token) ==
    IF token = <<"G", "E", "T">> THEN Some("Get")
    ELSE IF token = <<"P", "O", "S", "T">> THEN Some("Post")
    ELSE None

\* The header loop of Request::from_raw over lines[i..] (1-based i).
\* body_start is the source's 0-based index, 0 when no empty line was met.
RECURSIVE ParseHeaders(_, _, _)
ParseHeaders(lines, i, headers) ==
    IF i > Len(lines)
    THEN [err |-> FALSE, headers |-> headers, body_start |-> 0]
    ELSE IF lines[i] = <<>>
    THEN [err |-> FALSE, headers |-> headers, body_start |-> i]
    ELSE LET kv == split_once(lines[i], <<":", " ">>)
         IN  IF IsSome(kv)
             THEN ParseHeaders(lines, i + 1,
                               Insert(headers, Unwrap(kv)[1], Unwrap(kv)[2]))
             ELSE [err |-> TRUE, headers |-> headers, body_start |-> 0]

\* The body of Request::from_raw: lines[body_start..] rejoined, or None
ParseBody(lines, body_start) ==
    IF body_start < Len(lines)
    THEN Some(join(SubSeq(lines, body_start + 1, Len(lines)), CRLF))
    ELSE None

\* Request::from_raw: kind is "Ok", "Err" (the Err results) or "Panic"
\* (the unknown method)
from_raw(input) ==
    LET raw   == from_utf8_lossy(input)
        lines == split(raw, CRLF)
        parts == split_whitespace(lines[1])
    IN  IF Len(parts) # 3 THEN [kind |-> "Err", req |-> None]
        ELSE IF ~IsSome(HttpMethod_from_string(parts[1]))
        THEN [kind |-> "Panic", req |-> None]
        ELSE LET h == ParseHeaders(lines, 2, {})
             IN  IF h.err THEN [kind |-> "Err", req |-> None]
                 ELSE [kind |-> "Ok",
                       req  |-> Some([method       |-> Unwrap(HttpMethod_from_string(parts[1])),
                                      path         |-> parts[2],
                                      http_version |-> parts[3],
                                      headers      |-> h.headers,
                                      body         |-> ParseBody(lines, h.body_start)])]

\* Status::get_status_code
get_status_code(status) ==
    CASE status = "Ok" -> 200
      [] status = "Created" -> 201
      [] status = "NotFound" -> 404
      [] status = "InternalServerError" -> 500

\* Status::get_text_code
get_text_code(status) ==
    CASE status = "Ok" -> <<"O", "K">>
      [] status = "Created" -> <<"C", "r", "e", "a", "t", "e", "d">>
      [] status = "NotFound" -> <<"N", "o", "t", " ", "F", "o", "u", "n", "d">>
      [] status = "InternalServerError" -> <<"I", "n", "t", "e", "r", "n", "a", "l", " ", "S", "e", "r", "v", "e", "r", " ", "E", "r", "r", "o", "r">>

\* Status::to_string
Status_to_string(status) ==
    Decimal(get_status_code(status)) \o <<" ">> \o get_text_code(status)

TextPlain == [kind |-> "Text", sub |-> "Plain"]

OctetStream == [kind |-> "Application", sub |-> "OctetStream"]

\* ContentType::to_string with TextContentType / ApplicationContentType
ContentType_to_string(ct) ==
    IF ct.kind = "Text"
    THEN <<"t", "e", "x", "t", "/">> \o (CASE ct.sub = "Plain" -> <<"p", "l", "a", "i", "n">>)
    ELSE <<"a", "p", "p", "l", "i", "c", "a", "t", "i", "o", "n", "/">> \o (CASE ct.sub = "OctetStream" -> <<"o", "c", "t", "e", "t", "-", "s", "t", "r", "e", "a", "m">>)

\* The iteration orders of a HashMap: every enumeration of its entries
Orders(map) ==
    {o \in [1 .. Cardinality(map) -> map] :
        \A i, j \in 1 .. Cardinality(map) : o[i] = o[j] => i = j}

HeaderLines(order) ==
    [i \in 1 .. Len(order) |-> order[i][1] \o <<":", " ">> \o order[i][2]]

\* Response::to_string, for one iteration order of the header map
Response_to_string(res, order) ==
    res.http_version \o <<" ">> \o Status_to_string(res.status) \o CRLF
        \o join(HeaderLines(order), CRLF) \o CRLF \o CRLF
        \o (IF IsSome(res.content) THEN Unwrap(res.content).body ELSE <<>>)

\* Response::as_bytes: the wire format of section 4.4, body bytes verbatim
Response_as_bytes(res, order) ==
    res.http_version \o <<" ">> \o Status_to_string(res.status) \o CRLF
        \o join(HeaderLines(order), CRLF) \o CRLF \o CRLF
        \o (IF IsSome(res.content) THEN Unwrap(res.content).body ELSE <<>>)

-----------------------------------------------------------------------------
(* src/src/main.rs                                                         *)

BUF_SIZE == 1024

GZIP_ENCODING == <<"g", "z", "i", "p">>

\* read_data: one read of at most BUF_SIZE bytes of what the client sent
read_data(data) == Take(data, BUF_SIZE)

\* gzip (flate2's GzEncoder): the 10-byte member header, the payload and
\* the 8-byte trailer (CRC32, ISIZE); the deflate coding of the payload is
\* not modelled
gzip(bytes) ==
    <<"x1F", "x8B", "x08", "x00", "x00", "x00", "x00", "x00", "x00", "xFF">>
        \o bytes
        \o <<"crc", "crc", "crc", "crc", "isize", "isize", "isize", "isize">>

\* The route predicates of handle_request, tried in this order
IsRootRoute(path) == path = <<"/">>

IsUserAgentRoute(path) == path = <<"/", "u", "s", "e", "r", "-", "a", "g", "e", "n", "t">>

\* A faulty variant of IsEchoRoute: the prefix without its closing slash
IsEchoRoute_NoSlash(path) == starts_with(path, <<"/", "e", "c", "h", "o">>)

IsEchoRoute(path) == starts_with(path, <<"/", "e", "c", "h", "o", "/">>)

IsFilesRoute(path) == starts_with(path, <<"/", "f", "i", "l", "e", "s", "/">>)

EchoBody(path) == trim_start_matches(path, <<"/", "e", "c", "h", "o", "/">>)

\* file_root_dir + filename
FilePath(root, path) == root \o trim_start_matches(path, <<"/", "f", "i", "l", "e", "s", "/">>)

Content(content_type, body, encoding) ==
    [content_type |-> content_type, body |-> body, encoding |-> encoding]

\* read_file_content: fs::read_to_string fails on a missing file and on
\* content that is not UTF-8
read_file_content(files, path) ==
    LET data == Get(files, path)
    IN  IF IsSome(data) /\ is_utf8(Unwrap(data))
        THEN Some(Content(OctetStream, Unwrap(data), None))
        ELSE None

\* A faulty variant of CreateFile: an existing file is opened as it is
CreateFile_NoTruncate(files, path) ==
    IF IsSome(Get(files, path)) THEN files ELSE Insert(files, path, <<>>)

\* File::create on an existing or new path: the file is truncated
CreateFile(files, path) == Insert(files, path, <<>>)

\* A faulty variant of WriteFile: the bytes are appended to the file
WriteFile_Append(files, path, bytes) ==
    LET old == IF IsSome(Get(files, path)) THEN Unwrap(Get(files, path)) ELSE <<>>
    IN  Insert(files, path, old \o bytes)

\* file.write(bytes) on a handle fresh from File::create, when it returns
\* Ok: the bytes land at offset 0 and what the file holds beyond them stays
\* (a write that returns Err leaves the file as it is)
WriteFile(files, path, bytes) ==
    LET old == IF IsSome(Get(files, path)) THEN Unwrap(Get(files, path)) ELSE <<>>
    IN  Insert(files, path, bytes \o Drop(old, Len(bytes)))

Range(seq) == {seq[i] : i \in 1 .. Len(seq)}

\* A faulty variant of accepted_encodings: the tokens are not trimmed
accepted_encodings_NoTrim(req) ==
    LET list == Get(req.headers, <<"A", "c", "c", "e", "p", "t", "-", "E", "n", "c", "o", "d", "i", "n", "g">>)
    IN  IF IsSome(list) THEN Range(split(Unwrap(list), <<",">>)) ELSE {}

\* accepted_encodings of handle_request
accepted_encodings(req) ==
    LET list == Get(req.headers, <<"A", "c", "c", "e", "p", "t", "-", "E", "n", "c", "o", "d", "i", "n", "g">>)
    IN  IF IsSome(list)
        THEN {trim(token) : token \in Range(split(Unwrap(list), <<",">>))}
        ELSE {}

\* The compression step of handle_request; gzOk is the outcome of gzip()
Negotiate(req, status, content, gzOk) ==
    IF GZIP_ENCODING \in accepted_encodings(req) /\ IsSome(content)
    THEN IF gzOk
         THEN [status  |-> status,
               content |-> Some(Content(Unwrap(content).content_type,
                                        gzip(Unwrap(content).body),
                                        Some(GZIP_ENCODING)))]
         ELSE [status |-> "InternalServerError", content |-> None]
    ELSE [status |-> status, content |-> content]

\* The header synthesis of handle_request
ResponseHeaders(content) ==
    IF IsSome(content)
    THEN LET c == Unwrap(content)
             base == {<<<<"C", "o", "n", "t", "e", "n", "t", "-", "T", "y", "p", "e">>, ContentType_to_string(c.content_type)>>,
                      <<<<"C", "o", "n", "t", "e", "n", "t", "-", "L", "e", "n", "g", "t", "h">>, Decimal(Len(c.body))>>}
         IN  IF IsSome(c.encoding)
             THEN Insert(base, <<"C", "o", "n", "t", "e", "n", "t", "-", "E", "n", "c", "o", "d", "i", "n", "g">>, Unwrap(c.encoding))
             ELSE base
    ELSE {}

\* A faulty variant of MakeResponse: the headers are synthesized from the
\* content as it was before the compression
MakeResponse_StaleHeaders(req, status, content, gzOk) ==
    LET n == Negotiate(req, status, content, gzOk)
    IN  [http_version |-> req.http_version,
         status       |-> n.status,
         headers      |-> ResponseHeaders(content),
         content      |-> n.content]

\* The tail of handle_request, from accepted_encodings to the Response
MakeResponse(req, status, content, gzOk) ==
    LET n == Negotiate(req, status, content, gzOk)
    IN  [http_version |-> req.http_version,
         status       |-> n.status,
         headers      |-> ResponseHeaders(n.content),
         content      |-> n.content]

\* The routing of handle_request up to and including File::create.
\* kind: "done" (status and content chosen), "created" (a POST whose file is
\* open, the write still to come) or "panic" (an unwrap or expect failed).
Dispatch(req, root, files, createOk) ==
    LET path == req.path
        out(kind, status, content, newfiles) ==
            [kind |-> kind, status |-> status, content |-> content, files |-> newfiles]
    IN  IF IsRootRoute(path) THEN out("done", "Ok", None, files)
        ELSE IF IsUserAgentRoute(path)
        THEN LET ua == Get(req.headers, <<"U", "s", "e", "r", "-", "A", "g", "e", "n", "t">>)
             IN  IF IsSome(ua)
                 THEN out("done", "Ok", Some(Content(TextPlain, Unwrap(ua), None)), files)
                 ELSE out("panic", "Ok", None, files)
        ELSE IF IsEchoRoute(path)
        THEN out("done", "Ok", Some(Content(TextPlain, EchoBody(path), None)), files)
        ELSE IF IsFilesRoute(path)
        THEN IF ~IsSome(root) THEN out("panic", "Ok", None, files)
             ELSE LET file_path == FilePath(Unwrap(root), path)
                  IN  IF req.method = "Get"
                      THEN LET read == read_file_content(files, file_path)
                           IN  IF IsSome(read) THEN out("done", "Ok", read, files)
                               ELSE out("done", "NotFound", None, files)
                      ELSE IF createOk
                           THEN out("created", "Created", None, CreateFile(files, file_path))
                           ELSE out("done", "InternalServerError", None, files)
        ELSE out("done", "NotFound", None, files)

\* The bytes after the first blank line of what a client sent
SentBody(data) ==
    LET k == find(data, CRLF \o CRLF, 1)
    IN  IF k = 0 THEN None ELSE Some(Drop(data, k + 3))

Remove(map, key) == {p \in map : p[1] # key}

-----------------------------------------------------------------------------
(* The connections.  conn[c] is the thread serving connection slot c:      *)
(*   pc       where handle_connection stands                               *)
(*   data     the bytes the client sent                                    *)
(*   req      the parsed Request                                           *)
(*   pre      status and content as chosen by the routing (lines 57-130)   *)
(*   res      the Response of handle_request                               *)
(*   created, written, gz   the outcomes of File::create, file.write, gzip *)
(*   log, out the text of res.to_string() and the bytes written back       *)
(* sent[p] is the body sent by the last completed POST to p when nothing   *)
(* touched p since; lastWrite[p] is the bytes of the last write to p.      *)

NumThreads == 2

Threads == 1 .. NumThreads

Idle ==
    [pc |-> "idle", data |-> <<>>, req |-> None, pre |-> None, res |-> None,
     created |-> "no", written |-> "no", gz |-> "no", log |-> <<>>, out |-> <<>>]

\* The outcome of gzip() as recorded: "no" when it was not called
GzOutcome(req, content, gzOk) ==
    IF GZIP_ENCODING \in accepted_encodings(req) /\ IsSome(content)
    THEN (IF gzOk THEN "ok" ELSE "err")
    ELSE "no"

\* handle_connection: read_data and Request::from_raw
Accept(c, inputs) ==
    /\ conn[c].pc = "idle"
    /\ \E data \in inputs :
         LET buf == read_data(data)
             parsed == from_raw(buf)
         IN  conn' = [conn EXCEPT ![c] =
                 IF Len(buf) = 0
                 THEN [Idle EXCEPT !.pc = "closed", !.data = data]
                 ELSE [Idle EXCEPT !.pc   = IF parsed.kind = "Ok" THEN "handle" ELSE "panicked",
                                   !.data = data,
                                   !.req  = parsed.req]]
    /\ UNCHANGED <<rootDir, fs, sent, lastWrite>>

\* handle_request up to its Response, or for a POST to a file up to and
\* including File::create: the write is a system call of its own, between
\* which and the create other threads may run
HandleRequest(c) ==
    /\ conn[c].pc = "handle"
    /\ \E createOk \in BOOLEAN, gzOk \in BOOLEAN :
         LET req == Unwrap(conn[c].req)
             d   == Dispatch(req, rootDir, fs, createOk)
             isPost == IsFilesRoute(req.path) /\ IsSome(rootDir) /\ req.method = "Post"
         IN  /\ fs' = d.files
             /\ sent' = IF d.kind = "created"
                        THEN Remove(sent, FilePath(Unwrap(rootDir), req.path))
                        ELSE sent
             /\ conn' = [conn EXCEPT ![c] =
                    IF d.kind = "panic" THEN [@ EXCEPT !.pc = "panicked"]
                    ELSE IF d.kind = "created"
                    THEN [@ EXCEPT !.pc = "filewrite", !.created = "ok"]
                    ELSE [@ EXCEPT !.pc  = "respond",
                                   !.pre = Some([status |-> d.status, content |-> d.content]),
                                   !.res = Some(MakeResponse(req, d.status, d.content, gzOk)),
                                   !.created = IF isPost THEN "err" ELSE "no",
                                   !.gz  = GzOutcome(req, d.content, gzOk)]]
    /\ UNCHANGED <<rootDir, lastWrite>>

\* handle_request, the file.write of a POST and what follows it
FileWrite(c) ==
    /\ conn[c].pc = "filewrite"
    /\ \E writeOk \in BOOLEAN :
         LET req  == Unwrap(conn[c].req)
             path == FilePath(Unwrap(rootDir), req.path)
             wrote  == IsSome(req.body) /\ writeOk
             failed == IsSome(req.body) /\ ~writeOk
             status == IF failed THEN "InternalServerError" ELSE "Created"
         IN  /\ fs' = IF wrote THEN WriteFile(fs, path, Unwrap(req.body)) ELSE fs
             /\ lastWrite' = IF wrote THEN Insert(lastWrite, path, Unwrap(req.body))
                             ELSE lastWrite
             /\ sent' = IF ~failed /\ IsSome(SentBody(conn[c].data))
                        THEN Insert(sent, path, Unwrap(SentBody(conn[c].data)))
                        ELSE Remove(sent, path)
             /\ conn' = [conn EXCEPT ![c] =
                    [@ EXCEPT !.pc  = "respond",
                              !.pre = Some([status |-> status, content |-> None]),
                              !.res = Some(MakeResponse(req, status, None, TRUE)),
                              !.written = IF wrote THEN "ok"
                                          ELSE IF failed THEN "err" ELSE "skipped"]]
    /\ UNCHANGED rootDir

\* handle_connection: dbg!(res.to_string()) and stream.write(res.as_bytes())
Respond(c) ==
    /\ conn[c].pc = "respond"
    /\ \E order \in Orders(Unwrap(conn[c].res).headers) :
         conn' = [conn EXCEPT ![c] =
             [@ EXCEPT !.pc  = "done",
                       !.log = Response_to_string(Unwrap(conn[c].res), order),
                       !.out = Response_as_bytes(Unwrap(conn[c].res), order)]]
    /\ UNCHANGED <<rootDir, fs, sent, lastWrite>>

\* The thread ends; main's accept loop may hand the slot a new connection
Close(c) ==
    /\ conn[c].pc \in {"done", "panicked", "closed"}
    /\ conn' = [conn EXCEPT ![c] = Idle]
    /\ UNCHANGED <<rootDir, fs, sent, lastWrite>>

-----------------------------------------------------------------------------
(* The requests the clients send.                                          *)

RECURSIVE HeaderBlock(_)
HeaderBlock(lines) ==
    IF lines = <<>> THEN <<>> ELSE CRLF \o Head(lines) \o HeaderBlock(Tail(lines))

\* A request: the request line, the header lines and what ends the message
RawRequest(method, path, lines, ending) ==
    method \o <<" ">> \o path \o <<" ", "H", "T", "T", "P", "/", "1", ".", "1">> \o HeaderBlock(lines) \o ending

UserAgentLine == <<"U", "s", "e", "r", "-", "A", "g", "e", "n", "t", ":", " ", "x", "y", "z">>

Paths ==
    {<<"/">>, <<"/", "u", "s", "e", "r", "-", "a", "g", "e", "n", "t">>, <<"/", "e", "c", "h", "o", "/", "a", "b", "c">>, <<"/", "e", "c", "h", "o", "/">>, <<"/", "e", "c", "h", "o", "/", "/", "e", "c", "h", "o", "/", "a">>, <<"/", "e", "c", "h", "o">>,
     <<"/", "f", "i", "l", "e", "s", "/", "f">>, <<"/", "f", "i", "l", "e", "s", "/", "n", "o", "f", "i", "l", "e">>, <<"/", "f", "i", "l", "e", "s">>, <<"/", "n", "o", "p", "e">>}

\* Accept-Encoding header lines that name the token gzip ...
GzipLines ==
    {<<<<"A", "c", "c", "e", "p", "t", "-", "E", "n", "c", "o", "d", "i", "n", "g", ":", " ", "g", "z", "i", "p">>>>,
     <<<<"A", "c", "c", "e", "p", "t", "-", "E", "n", "c", "o", "d", "i", "n", "g", ":", " ", "d", "e", "f", "l", "a", "t", "e", ",", " ", "g", "z", "i", "p">>>>,
     <<<<"A", "c", "c", "e", "p", "t", "-", "E", "n", "c", "o", "d", "i", "n", "g", ":", " ", "b", "r", ",", "g", "z", "i", "p", " ", ",", "x">>>>,
     <<<<"A", "c", "c", "e", "p", "t", "-", "E", "n", "c", "o", "d", "i", "n", "g", ":", " ", "d", "e", "f", "l", "a", "t", "e">>, <<"A", "c", "c", "e", "p", "t", "-", "E", "n", "c", "o", "d", "i", "n", "g", ":", " ", "g", "z", "i", "p">>>>}

\* ... and header lines that do not
NoGzipLines ==
    {<<>>,
     <<<<"A", "c", "c", "e", "p", "t", "-", "E", "n", "c", "o", "d", "i", "n", "g", ":", " ", "d", "e", "f", "l", "a", "t", "e">>>>,
     <<<<"A", "c", "c", "e", "p", "t", "-", "E", "n", "c", "o", "d", "i", "n", "g", ":", " ", "G", "Z", "I", "P">>>>,
     <<<<"A", "c", "c", "e", "p", "t", "-", "E", "n", "c", "o", "d", "i", "n", "g", ":", " ", "g", "z", "i", "p", ";", "q", "=", "1">>>>,
     <<<<"a", "c", "c", "e", "p", "t", "-", "e", "n", "c", "o", "d", "i", "n", "g", ":", " ", "g", "z", "i", "p">>>>,
     <<<<"A", "c", "c", "e", "p", "t", "-", "E", "n", "c", "o", "d", "i", "n", "g", ":", " ", "g", "z", "i", "p">>, <<"A", "c", "c", "e", "p", "t", "-", "E", "n", "c", "o", "d", "i", "n", "g", ":", " ", "d", "e", "f", "l", "a", "t", "e">>>>}

Bodies == {<<>>, <<"a", "b">>, <<"a", "\r", "\n", "b">>, <<"xFF">>, <<"a", "xFF">>}

\* What ends a message: nothing, the end of the last line, or a blank line
\* and a body
Endings == {<<>>, CRLF} \cup {CRLF \o CRLF \o b : b \in Bodies}

RoutingInputs ==
    {RawRequest(m, p, h, CRLF \o CRLF) :
        m \in {<<"G", "E", "T">>, <<"P", "O", "S", "T">>}, p \in Paths,
        h \in {<<>>, <<UserAgentLine>>, <<<<"A", "c", "c", "e", "p", "t", "-", "E", "n", "c", "o", "d", "i", "n", "g", ":", " ", "g", "z", "i", "p">>>>,
               <<UserAgentLine, <<"A", "c", "c", "e", "p", "t", "-", "E", "n", "c", "o", "d", "i", "n", "g", ":", " ", "d", "e", "f", "l", "a", "t", "e", ",", " ", "g", "z", "i", "p">>>>}}

EncodingInputs ==
    {RawRequest(<<"G", "E", "T">>, p, <<UserAgentLine>> \o h, CRLF \o CRLF) :
        p \in {<<"/">>, <<"/", "u", "s", "e", "r", "-", "a", "g", "e", "n", "t">>, <<"/", "e", "c", "h", "o", "/", "a", "b", "c">>, <<"/", "f", "i", "l", "e", "s", "/", "f">>},
        h \in GzipLines \cup NoGzipLines}

BodyInputs ==
    {RawRequest(m, p, h, e) :
        m \in {<<"G", "E", "T">>, <<"P", "O", "S", "T">>}, p \in {<<"/", "f", "i", "l", "e", "s", "/", "f">>, <<"/", "e", "c", "h", "o", "/", "a", "b", "c">>},
        h \in {<<>>, <<<<"A", "c", "c", "e", "p", "t", "-", "E", "n", "c", "o", "d", "i", "n", "g", ":", " ", "g", "z", "i", "p">>>>}, e \in Endings}

\* An empty read and the framing errors
FramingInputs ==
    {<<>>,
     <<"P", "U", "T", " ", "/", " ", "H", "T", "T", "P", "/", "1", ".", "1", "\r", "\n", "\r", "\n">>,
     <<"G", "E", "T", " ", "/", "\r", "\n", "\r", "\n">>,
     <<"G", "E", "T", " ", "/", "e", "c", "h", "o", "/", "a", " ", "b", " ", "H", "T", "T", "P", "/", "1", ".", "1", "\r", "\n", "\r", "\n">>,
     <<"G", "E", "T", " ", "/", " ", "H", "T", "T", "P", "/", "1", ".", "1", "\r", "\n", "H", "o", "s", "t", "\r", "\n", "\r", "\n">>}

Inputs == RoutingInputs \cup EncodingInputs \cup BodyInputs \cup FramingInputs

\* The requests of the concurrent clients: POSTs to one file, and a GET
ConcurrentInputs ==
    {RawRequest(<<"P", "O", "S", "T">>, <<"/", "f", "i", "l", "e", "s", "/", "f">>, <<>>, CRLF \o CRLF \o b) : b \in {<<"a">>, <<"b", "b">>}}
        \cup {RawRequest(<<"P", "O", "S", "T">>, <<"/", "f", "i", "l", "e", "s", "/", "f">>, <<>>, CRLF),
              RawRequest(<<"G", "E", "T">>, <<"/", "f", "i", "l", "e", "s", "/", "f">>, <<>>, CRLF \o CRLF)}

Root == <<"/", "t", "m", "p", "/">>

\* The --directory flag may be missing; the directory may hold files
InitialFiles ==
    {{}, {<<Root \o <<"f">>, <<"h", "e", "l", "l", "o">>>>}, {<<Root \o <<"f">>, <<"xFF">>>>}}

Init ==
    /\ rootDir \in {None, Some(Root)}
    /\ fs \in (IF IsSome(rootDir) THEN InitialFiles ELSE {{}})
    /\ conn = [c \in Threads |-> Idle]
    /\ sent = {}
    /\ lastWrite = {}

\* One connection at a time
Next ==
    \E c \in {1} :
        \/ Accept(c, Inputs)
        \/ HandleRequest(c)
        \/ FileWrite(c)
        \/ Respond(c)
        \/ Close(c)

Spec == Init /\ [][Next]_vars

\* A thread per connection, each thread serving one connection
NextConc ==
    \E c \in Threads :
        \/ Accept(c, ConcurrentInputs)
        \/ HandleRequest(c)
        \/ FileWrite(c)
        \/ Respond(c)

SpecConc == Init /\ [][NextConc]_vars

-----------------------------------------------------------------------------
(* The claims.                                                             *)

Keys(map) == {p[1] : p \in map}

ends_with(s, p) == Len(s) >= Len(p) /\ SubSeq(s, Len(s) - Len(p) + 1, Len(s)) = p

\* The connection has a Response (handle_request returned)
Handled(c) == conn[c].pc \in {"respond", "done"}

Req(c) == Unwrap(conn[c].req)

Res(c) == Unwrap(conn[c].res)

Pre(c) == Unwrap(conn[c].pre)

ContentLength(c) == Get(Res(c).headers, <<"C", "o", "n", "t", "e", "n", "t", "-", "L", "e", "n", "g", "t", "h">>)

ContentEncoding(c) == Get(Res(c).headers, <<"C", "o", "n", "t", "e", "n", "t", "-", "E", "n", "c", "o", "d", "i", "n", "g">>)

\* C1: for every s for which GET /echo/{s} parses, when gzip is not
\* accepted the response is 200, text/plain, with a body equal to s (the path
\* with one leading "/echo/" removed) and Content-Length the length of s.
C1_EchoBodyIsSuffix ==
    \A c \in Threads :
        (/\ Handled(c)
         /\ Req(c).method = "Get"
         /\ starts_with(Req(c).path, <<"/", "e", "c", "h", "o", "/">>)
         /\ conn[c].gz = "no")
        => LET s == Drop(Req(c).path, 6)
           IN  /\ Res(c).status = "Ok"
               /\ IsSome(Res(c).content)
               /\ Unwrap(Res(c).content).body = s
               /\ Get(Res(c).headers, <<"C", "o", "n", "t", "e", "n", "t", "-", "T", "y", "p", "e">>) = Some(<<"t", "e", "x", "t", "/", "p", "l", "a", "i", "n">>)
               /\ ContentLength(c) = Some(Decimal(Len(s)))

\* C2: a GET /files/f that follows a completed POST /files/f with body B,
\* with no other write to f in between, is answered 200 with body B, byte
\* for byte.
C2_FileRoundTrip ==
    \A c \in Threads :
        (/\ Handled(c)
         /\ Req(c).method = "Get"
         /\ IsFilesRoute(Req(c).path)
         /\ conn[c].gz = "no"
         /\ IsSome(Get(sent, FilePath(Unwrap(rootDir), Req(c).path))))
        => /\ Res(c).status = "Ok"
           /\ IsSome(Res(c).content)
           /\ Some(Unwrap(Res(c).content).body)
                  = Get(sent, FilePath(Unwrap(rootDir), Req(c).path))

\* The Accept-Encoding values of the requests that hold the token gzip
GzipValues == {<<"g", "z", "i", "p">>, <<"d", "e", "f", "l", "a", "t", "e", ",", " ", "g", "z", "i", "p">>, <<"b", "r", ",", "g", "z", "i", "p", " ", ",", "x">>}

NamesGzip(req) ==
    /\ IsSome(Get(req.headers, <<"A", "c", "c", "e", "p", "t", "-", "E", "n", "c", "o", "d", "i", "n", "g">>))
    /\ Unwrap(Get(req.headers, <<"A", "c", "c", "e", "p", "t", "-", "E", "n", "c", "o", "d", "i", "n", "g">>)) \in GzipValues

\* C3: the response carries Content-Encoding: gzip exactly when the routing
\* produced content, the Accept-Encoding header holds the token gzip and the
\* compression succeeded; then the body is the gzip of the routed body and
\* Content-Length its length.  When the token is not there the routed status
\* and content are the response's, with no Content-Encoding.
C3_GzipGatedOnToken ==
    \A c \in Threads :
        Handled(c) =>
            /\ IsSome(ContentEncoding(c))
                   <=> (/\ IsSome(Pre(c).content)
                        /\ NamesGzip(Req(c))
                        /\ conn[c].gz # "err")
            /\ IsSome(ContentEncoding(c)) =>
                   /\ ContentEncoding(c) = Some(<<"g", "z", "i", "p">>)
                   /\ Unwrap(Res(c).content).body = gzip(Unwrap(Pre(c).content).body)
                   /\ Unwrap(Res(c).content).body # Unwrap(Pre(c).content).body
                   /\ ContentLength(c)
                          = Some(Decimal(Len(gzip(Unwrap(Pre(c).content).body))))
            /\ ~NamesGzip(Req(c)) =>
                   /\ Res(c).content = Pre(c).content
                   /\ Res(c).status = Pre(c).status

\* C3's case: a gzip token after a comma and a space gets /echo/abc gzipped
C3_Witness ==
    \E c \in Threads :
        /\ Handled(c)
        /\ Get(Req(c).headers, <<"A", "c", "c", "e", "p", "t", "-", "E", "n", "c", "o", "d", "i", "n", "g">>) = Some(<<"d", "e", "f", "l", "a", "t", "e", ",", " ", "g", "z", "i", "p">>)
        /\ Req(c).path = <<"/", "e", "c", "h", "o", "/", "a", "b", "c">>
        /\ ContentEncoding(c) = Some(<<"g", "z", "i", "p">>)
        /\ ContentLength(c) = Some(<<"2", "1">>)

\* C4: GET / is answered 200 with no headers and no content, and the
\* serialized response is the status line and the blank-line separator with
\* nothing after the first "\r\n\r\n".
C4_RootResponseHasNoBody ==
    \A c \in Threads :
        (conn[c].pc = "done" /\ Req(c).method = "Get" /\ Req(c).path = <<"/">>)
        => /\ Res(c).status = "Ok"
           /\ Res(c).headers = {}
           /\ Res(c).content = None
           /\ find(conn[c].log, CRLF \o CRLF, 1) > 0
           /\ find(conn[c].log, CRLF \o CRLF, 1) + 3 = Len(conn[c].log)

\* C5: the header keys of every Response are none without content,
\* Content-Type and Content-Length with content, and Content-Encoding too
\* when the content has an encoding; Content-Length is the length of the
\* body the response carries.
C5_HeaderKeySet ==
    \A c \in Threads :
        Handled(c) =>
            /\ Keys(Res(c).headers) =
                   (IF ~IsSome(Res(c).content) THEN {}
                    ELSE IF ~IsSome(Unwrap(Res(c).content).encoding)
                    THEN {<<"C", "o", "n", "t", "e", "n", "t", "-", "T", "y", "p", "e">>, <<"C", "o", "n", "t", "e", "n", "t", "-", "L", "e", "n", "g", "t", "h">>}
                    ELSE {<<"C", "o", "n", "t", "e", "n", "t", "-", "T", "y", "p", "e">>, <<"C", "o", "n", "t", "e", "n", "t", "-", "L", "e", "n", "g", "t", "h">>, <<"C", "o", "n", "t", "e", "n", "t", "-", "E", "n", "c", "o", "d", "i", "n", "g">>})
            /\ Cardinality(Res(c).headers) = Cardinality(Keys(Res(c).headers))
            /\ IsSome(Res(c).content) =>
                   ContentLength(c) = Some(Decimal(Len(Unwrap(Res(c).content).body)))
            /\ conn[c].pc = "done" =>
                   ends_with(conn[c].log,
                             IF IsSome(Res(c).content)
                             THEN Unwrap(Res(c).content).body ELSE <<>>)

\* C5's case: a compressed file, three headers
C5_Witness ==
    \E c \in Threads :
        /\ conn[c].pc = "done"
        /\ IsFilesRoute(Req(c).path)
        /\ conn[c].gz = "ok"
        /\ Cardinality(Res(c).headers) = 3

\* What the client sent has no empty line after the request line
NoBlankLine(data) == find(data, CRLF \o CRLF, 1) = 0 /\ ~ends_with(data, CRLF)

\* C6: without an empty line after the request line from_raw succeeds with
\* no body; a body is there only when a blank line was found, and is what
\* follows that blank line.
C6_NoBlankLineNoBody ==
    \A c \in Threads :
        /\ (conn[c].pc \notin {"idle", "closed"} /\ NoBlankLine(conn[c].data))
               => (IsSome(conn[c].req) /\ Req(c).body = None)
        /\ (IsSome(conn[c].req) /\ IsSome(Req(c).body))
               => (/\ IsSome(SentBody(conn[c].data))
                   /\ Unwrap(Req(c).body) = from_utf8_lossy(Unwrap(SentBody(conn[c].data))))

UnknownPath(path) ==
    /\ path \notin {<<"/">>, <<"/", "u", "s", "e", "r", "-", "a", "g", "e", "n", "t">>}
    /\ ~starts_with(path, <<"/", "e", "c", "h", "o", "/">>)
    /\ ~starts_with(path, <<"/", "f", "i", "l", "e", "s", "/">>)

\* C7: a request for a path that is none of the routes is answered 404 with
\* no content and no headers, whatever its method, headers and body.
C7_UnknownPathNotFound ==
    \A c \in Threads :
        (IsSome(conn[c].req) /\ conn[c].pc # "handle" /\ UnknownPath(Req(c).path))
        => /\ Handled(c)
           /\ Res(c).status = "NotFound"
           /\ Res(c).content = None
           /\ Res(c).headers = {}

\* C7's case: POST /echo (no trailing slash) that accepts gzip, answered
C7_Witness ==
    \E c \in Threads :
        /\ conn[c].pc = "done"
        /\ Req(c).method = "Post"
        /\ Req(c).path = <<"/", "e", "c", "h", "o">>
        /\ NamesGzip(Req(c))
        /\ Res(c).status = "NotFound"

\* C8: on a server started with its --directory flag, a connection whose
\* bytes are no framing error (the read is not empty and the request parses)
\* is answered: its thread never ends without writing a response, a missing
\* expected header included, and the response's status is 200, 201, 404 or
\* 500.
C8_WellFramedIsAnswered ==
    \A c \in Threads :
        (IsSome(rootDir) /\ IsSome(conn[c].req)) =>
            /\ conn[c].pc \in {"handle", "filewrite", "respond", "done"}
            /\ conn[c].pc = "done" =>
                   /\ get_status_code(Res(c).status) \in {200, 201, 404, 500}
                   /\ starts_with(conn[c].out,
                                  Req(c).http_version \o <<" ">>
                                      \o Status_to_string(Res(c).status) \o CRLF)

\* C9: a POST /files/{name} is answered 201 exactly when File::create and
\* the write both succeed (no body counts as a successful write, and leaves
\* the file created and empty), 500 when either fails, and never anything
\* else; the response has no content.
C9_PostFilesStatus ==
    \A c \in Threads :
        (Handled(c) /\ Req(c).method = "Post" /\ IsFilesRoute(Req(c).path))
        => LET path == FilePath(Unwrap(rootDir), Req(c).path)
           IN  /\ Res(c).content = None
               /\ Res(c).headers = {}
               /\ Res(c).status \in {"Created", "InternalServerError"}
               /\ Res(c).status = "Created"
                      <=> (conn[c].created = "ok" /\ conn[c].written \in {"ok", "skipped"})
               /\ Res(c).status = "InternalServerError"
                      <=> (conn[c].created = "err" \/ conn[c].written = "err")
               /\ conn[c].written = "skipped"
                      <=> (conn[c].created = "ok" /\ Req(c).body = None)
               /\ conn[c].written = "skipped" => Get(fs, path) = Some(<<>>)
               /\ conn[c].written = "ok" => Get(fs, path) = Req(c).body

\* C9's case: a POST with no body, answered 201
C9_Witness ==
    \E c \in Threads :
        /\ conn[c].pc = "done"
        /\ Req(c).method = "Post"
        /\ IsFilesRoute(Req(c).path)
        /\ Req(c).body = None
        /\ Res(c).status = "Created"

\* The threads that serve a POST to a file
Posters == {c \in Threads : /\ IsSome(conn[c].req)
                            /\ Req(c).method = "Post"
                            /\ IsFilesRoute(Req(c).path)}

\* Two connections POSTed non-empty bodies to the file of path p, both
\* handlers have completed with their create and write successful, and no
\* other thread serves a POST
TwoPostsCompleted(p) ==
    /\ Cardinality(Posters) = 2
    /\ \A c \in Posters :
           /\ Handled(c)
           /\ FilePath(Unwrap(rootDir), Req(c).path) = p
           /\ conn[c].created = "ok"
           /\ conn[c].written = "ok"
           /\ Unwrap(Req(c).body) # <<>>

PostedBodies == {Unwrap(Req(c).body) : c \in Posters}

FileOf(p) == Unwrap(Get(fs, p))

LastWritten(p) == Unwrap(Get(lastWrite, p))

\* C10 as stated: once both handlers of two concurrent POSTs to a file have
\* completed, the file holds exactly the body whose write happened last.
C10_LastWriterWinsExactly ==
    \A p \in Keys(fs) :
        TwoPostsCompleted(p) =>
            /\ FileOf(p) = LastWritten(p)
            /\ FileOf(p) \in PostedBodies

\* C10 as amended: the file is not empty and begins with the body whose
\* write happened last; it is that body alone, or that body followed by the
\* tail of the other, longer body, and it is that body alone when the other
\* body is no longer.
C10_LastWriterIsPrefix ==
    \A p \in Keys(fs) :
        TwoPostsCompleted(p) =>
            /\ LastWritten(p) \in PostedBodies
            /\ FileOf(p) # <<>>
            /\ starts_with(FileOf(p), LastWritten(p))
            /\ \/ FileOf(p) = LastWritten(p)
               \/ \E b \in PostedBodies :
                      /\ Len(b) > Len(LastWritten(p))
                      /\ FileOf(p) = LastWritten(p) \o Drop(b, Len(LastWritten(p)))
            /\ (\A b \in PostedBodies : Len(b) <= Len(LastWritten(p)))
                   => FileOf(p) = LastWritten(p)

\* C10's case: the last write was the shorter body and the file is a mixture
C10_Witness ==
    \E p \in Keys(fs) :
        /\ TwoPostsCompleted(p)
        /\ \A c \in Posters : conn[c].pc = "done"
        /\ FileOf(p) # LastWritten(p)
        /\ FileOf(p) \notin PostedBodies
====
